---- MODULE Spec2Model ----
(***************************************************************************)
(* Quick Torrent Maker 2 (fieryfurry/qtm2).                                *)
(*                                                                         *)
(* The application is one view-model object, Qtm, driven by an             *)
(* immediate-mode render loop: every frame calls Qtm::update, which polls  *)
(* the dialog channel and then lays out the widgets, handling at most one  *)
(* pointer or keyboard event.  Clicking "Upload torrent" spawns a worker   *)
(* thread running create_torrent_file, which reports back through the      *)
(* dialog channel.  A frame is modelled as two steps, the poll and the      *)
(* widgets, because a worker's send can fall between the two.              *)
(*                                                                         *)
(* The pure functions (piece length, version order, login form) are        *)
(* operators, each applied by a specification of its own.                  *)
(***************************************************************************)
EXTENDS Integers, Sequences, FiniteSets, TLC

(***************************************************************************)
(* Option<T>: None is the empty sequence, Some(x) a sequence of one.       *)
(***************************************************************************)
None == <<>>
Some(x) == <<x>>
IsSome(o) == o # <<>>
Unwrap(o) == o[1]

Range(s) == {s[i] : i \in 1..Len(s)}

(***************************************************************************)
(* Bounds of the model.                                                    *)
(***************************************************************************)
MaxUploads == 2
MaxImages == 2
MaxPick == 2

(***************************************************************************)
(* DialogMessage(text, is_ok_showing).  The text is a sequence of lines.   *)
(***************************************************************************)
DialogMessage(text, is_ok_showing) ==
    [text |-> text, is_ok_showing |-> is_ok_showing]

CreatingMsg == DialogMessage(<<"Creating torrent...">>, FALSE)
MissingMsg == DialogMessage(<<"Content path does not exist; upload aborted">>, TRUE)
WrittenMsg == DialogMessage(<<"Torrent has been written to disk successfully">>, TRUE)
WriteFailedMsg == DialogMessage(<<"Failed to write torrent to disk">>, TRUE)
BuildFailedMsg == DialogMessage(<<"Failed to create torrent">>, TRUE)
DuplicateMsg(filenames) == DialogMessage(<<"Duplicate image:", "">> \o filenames, TRUE)

(***************************************************************************)
(* Category: Category::None and the first five of its 45 other variants.   *)
(***************************************************************************)
CategoryNone == "Select Category"
Category == {CategoryNone, "Amateur", "Anal", "Anime Games", "Asian", "Bareback"}
NumLevels == 5
Levels == 0..(NumLevels - 1)

(***************************************************************************)
(* Paths are sequences of components; file_name() is the last one.         *)
(***************************************************************************)
file_name(path) == path[Len(path)]

ContentPath == <<"data", "movie.mkv">>
ImagePaths == {<<"pics", "a.png">>, <<"more", "a.png">>}

Image(path) == [path |-> path, filename |-> file_name(path)]

(***************************************************************************)
(* Strings are sequences of characters.                                    *)
(***************************************************************************)
White_Space == {" ", "\t", "\n", "\r"}

RECURSIVE trim_start(_)
trim_start(s) ==
    IF s # <<>> /\ Head(s) \in White_Space THEN trim_start(Tail(s)) ELSE s

RECURSIVE trim_end(_)
trim_end(s) ==
    IF s # <<>> /\ s[Len(s)] \in White_Space
    THEN trim_end(SubSeq(s, 1, Len(s) - 1))
    ELSE s

trim(s) == trim_end(trim_start(s))

VARIABLES
    dialog,            \* Qtm.dialog: Option<DialogMessage>
    chan,              \* messages in flight on Qtm.dialog_channel
    is_file,           \* Qtm.is_file
    content,           \* Qtm.content: Option<path>
    categories,        \* Qtm.categories: [Category; 5]
    images,            \* Qtm.images: Vec<Image>
    selected_index,    \* Qtm.selected_index: Option<usize> (0-based)
    persisted,         \* egui memory under Id "selected_index"
    title,             \* Qtm.title
    description,       \* Qtm.description
    tags,              \* Qtm.tags: BTreeMap<TagData, bool>
    is_tag_menu_open,  \* Qtm.is_tag_menu_open
    uiPc,              \* position of the render thread inside update()
    lastEvent,         \* the event the last finished frame handled
    workers,           \* the create_torrent_file threads, in spawn order
    fs,                \* the paths that exist on disk
    total_length,      \* calculate_piece_length: its argument, a u64
    piece_length,      \* calculate_piece_length: what it returned
    version_a,         \* QtmVersion::cmp: self
    version_b,         \* QtmVersion::cmp: other
    ordering,          \* QtmVersion::cmp: what it returned
    username,          \* QtmNetworking::login: username
    password,          \* QtmNetworking::login: password
    boundary,          \* QtmNetworking::login: the generated boundary
    form,              \* QtmNetworking::login: the request body
    prompt,            \* PasswordPrompt: username, password, is_authenticated
    frame_closed,      \* PasswordPrompt: frame.close() was called
    login_call,        \* the last QtmNetworking::login: its response and result
    columns,           \* TableBuilder.columns
    rect_width,        \* TableBuilder: ui.available_rect_before_wrap().width()
    vscroll,           \* TableBuilder.vscroll
    widths_result,     \* TableBuilder::widths: what it returned
    data_persisted,    \* Table::body: egui memory under the table id
    body_call,         \* the last Table::body: what it read, got and returned
    config_file,       \* QtmConfig::load: the file at the path
    config_writable,   \* QtmConfig::load: whether fs::write to the path succeeds
    load_call,         \* the last QtmConfig::load: file before, result, file after
    row,               \* TableRow: widths, layout, column_no
    row_cells,         \* TableRow: the cells allocated so far
    row_panic          \* TableRow::col: the panic it raised, if any

guiVars == <<dialog, chan, is_file, content, categories, images, selected_index,
             persisted, title, description, tags, is_tag_menu_open, uiPc,
             lastEvent, workers, fs>>

pieceVars == <<total_length, piece_length>>
versionVars == <<version_a, version_b, ordering>>
loginVars == <<username, password, boundary, form>>

promptVars == <<prompt, frame_closed, login_call>>
widthsVars == <<columns, rect_width, vscroll, widths_result>>
bodyVars == <<data_persisted, body_call>>
configVars == <<config_file, config_writable, load_call>>
rowVars == <<row, row_cells, row_panic>>
widgetVars == <<promptVars, widthsVars, bodyVars, configVars, rowVars>>

\* the variables of the function specifications, which the application leaves alone
pureVars == <<pieceVars, versionVars, loginVars, widgetVars>>

vars == <<guiVars, pureVars>>

\* what a function returned is None until it is called, Some(result) after

(***************************************************************************)
(* Qtm::new                                                                *)
(***************************************************************************)
\* the fields that do not depend on the tags argument
QtmNewFields ==
    /\ dialog = None
    /\ chan = <<>>
    /\ is_file = TRUE
    /\ content = None
    /\ categories = [n \in Levels |-> CategoryNone]
    /\ images = <<>>
    /\ selected_index = None
    /\ persisted = None
    /\ title = <<>>
    /\ description = <<>>
    /\ is_tag_menu_open = FALSE
    /\ uiPc = "poll"
    /\ workers = <<>>
    /\ fs = {ContentPath}

\* Qtm::new(vec![]): the tags map of an empty list is empty
QtmNew ==
    /\ QtmNewFields
    /\ tags = <<>>
    /\ lastEvent = <<"none">>

(***************************************************************************)
(* The dialog channel.  Qtm keeps dialog_channel.0, and every worker that  *)
(* has not returned holds a clone of it.                                   *)
(***************************************************************************)
Running(w) == w.pc \notin {"done", "panicked"}

RunningWorkers == {w \in 1..Len(workers) : Running(workers[w])}

\* the senders without the one Qtm keeps
WorkerSenders == Cardinality({i \in 1..Len(workers) : Running(workers[i])})

Senders == 1 + Cardinality({i \in 1..Len(workers) : Running(workers[i])})

\* a blocking recv in place of try_recv
recv(queue, senders) ==
    [returns |-> queue # <<>> \/ senders = 0,
     result |-> IF queue # <<>> THEN <<"Ok", Head(queue)>> ELSE <<"Err", "Disconnected">>,
     rest |-> IF queue # <<>> THEN Tail(queue) ELSE queue]

try_recv(queue, senders) ==
    [returns |-> TRUE,
     result |-> IF queue # <<>> THEN <<"Ok", Head(queue)>>
                ELSE IF senders = 0 THEN <<"Err", "Disconnected">>
                ELSE <<"Err", "Empty">>,
     rest |-> IF queue # <<>> THEN Tail(queue) ELSE queue]

send(queue, message) == Append(queue, message)

(***************************************************************************)
(* Qtm::update, first half: the poll of the dialog channel.                *)
(***************************************************************************)
PollDialogChannel ==
    /\ uiPc = "poll"
    /\ IF dialog = None \/ ~Unwrap(dialog).is_ok_showing
       THEN LET r == try_recv(chan, Senders) IN
            /\ r.returns
            /\ chan' = r.rest
            /\ IF r.result[1] = "Ok"
               THEN dialog' = Some(r.result[2]) /\ uiPc' = "widgets"
               ELSE IF r.result[2] = "Empty"
               THEN dialog' = dialog /\ uiPc' = "widgets"
               ELSE dialog' = dialog /\ uiPc' = "panicked"
       ELSE UNCHANGED <<chan, dialog>> /\ uiPc' = "widgets"
    /\ UNCHANGED <<pureVars, is_file, content, categories, images, selected_index, persisted,
                   title, description, tags, is_tag_menu_open, lastEvent, workers, fs>>

(***************************************************************************)
(* Qtm::update, second half: the widgets.  Each action below is the rest   *)
(* of one frame with one event in it; every frame ends with Table::body.   *)
(***************************************************************************)
FormEnabled == dialog = None /\ ~is_tag_menu_open

\* a body that forgets the persisted selection
TableBodyClosureResult(closure_result, selected_row) == closure_result

\* Table::body: the closure returns Qtm.selected_index
TableBodyResult(closure_result, selected_row) ==
    IF IsSome(closure_result) THEN closure_result ELSE selected_row

EndFrame(event, closure_result, selected_row) ==
    /\ uiPc' = "poll"
    /\ lastEvent' = event
    /\ selected_index' = TableBodyResult(closure_result, selected_row)
    /\ persisted' = TableBodyResult(closure_result, selected_row)

FrameIdle ==
    /\ uiPc = "widgets"
    /\ EndFrame(<<"none">>, selected_index, persisted)
    /\ UNCHANGED <<pureVars, dialog, chan, is_file, content, categories, images, title,
                   description, tags, is_tag_menu_open, workers, fs>>

\* show_dialog_window: the OK button
ClickDialogOk ==
    /\ uiPc = "widgets"
    /\ IsSome(dialog) /\ Unwrap(dialog).is_ok_showing
    /\ dialog' = None
    /\ EndFrame(<<"ok">>, selected_index, persisted)
    /\ UNCHANGED <<pureVars, chan, is_file, content, categories, images, title,
                   description, tags, is_tag_menu_open, workers, fs>>

\* is_acceptable with is_empty() in place of trim().is_empty() for the title
is_acceptable_untrimmed_title ==
    /\ IsSome(content)
    /\ ~ \/ categories[0] = CategoryNone
         \/ images = <<>>
         \/ title = <<>>
         \/ trim(description) = <<>>

is_acceptable ==
    /\ IsSome(content)
    /\ ~ \/ categories[0] = CategoryNone
         \/ images = <<>>
         \/ trim(title) = <<>>
         \/ trim(description) = <<>>

\* the thread std::thread::spawn starts
SpawnWorker(content_path) ==
    [pc |-> "check", path |-> content_path, sent |-> <<>>,
     torrent |-> None, written |-> None]

ClickUploadTorrent ==
    /\ uiPc = "widgets"
    /\ dialog = None /\ ~is_tag_menu_open /\ is_acceptable
    /\ Len(workers) < MaxUploads
    /\ chan' = send(chan, CreatingMsg)
    /\ workers' = Append(workers, SpawnWorker(Unwrap(content)))
    /\ EndFrame(<<"upload">>, selected_index, persisted)
    /\ UNCHANGED <<pureVars, dialog, is_file, content, categories, images, title,
                   description, tags, is_tag_menu_open, fs>>


\* the "Upload File" / "Upload Folder" radio buttons
ClickContentType(file) ==
    /\ uiPc = "widgets"
    /\ FormEnabled
    /\ is_file # file
    /\ is_file' = file
    /\ content' = None
    /\ EndFrame(<<"content type">>, selected_index, persisted)
    /\ UNCHANGED <<pureVars, dialog, chan, categories, images, title, description, tags,
                   is_tag_menu_open, workers, fs>>

\* select_content: the picker offers what is on disk, or is cancelled
select_content(picked) == picked

PickContent(picked) ==
    /\ uiPc = "widgets"
    /\ FormEnabled
    /\ IsSome(picked) => Unwrap(picked) \in fs
    /\ content' = select_content(picked)
    /\ EndFrame(<<"content">>, selected_index, persisted)
    /\ UNCHANGED <<pureVars, dialog, chan, is_file, categories, images, title, description,
                   tags, is_tag_menu_open, workers, fs>>

(***************************************************************************)
(* The five category selectors.                                            *)
(***************************************************************************)
CategoryOptions(cats, number) ==
    {c \in Category :
        c = CategoryNone \/ ~ \E m \in Levels : m < number /\ cats[m] = c}

\* a reset that stops at the next level
ResetNextCategory(cats, number) ==
    [m \in Levels |-> IF m = number + 1 THEN CategoryNone ELSE cats[m]]

ResetSubCategories(cats, number) ==
    [m \in Levels |-> IF m > number THEN CategoryNone ELSE cats[m]]

ChooseCategory(number, category) ==
    /\ uiPc = "widgets"
    /\ FormEnabled
    /\ IF number = 0 THEN TRUE ELSE categories[number - 1] # CategoryNone
    /\ category \in CategoryOptions(categories, number)
    /\ categories' = ResetSubCategories([categories EXCEPT ![number] = category], number)
    /\ EndFrame(<<"category", number, categories>>, selected_index, persisted)
    /\ UNCHANGED <<pureVars, dialog, chan, is_file, content, images, title, description,
                   tags, is_tag_menu_open, workers, fs>>

(***************************************************************************)
(* Images: file_dialog::select_images and the table of attached images.    *)
(***************************************************************************)
\* a select_images that reports every duplicate in a message of its own
select_images_message_each(current_images, picked) ==
    IF picked = None
    THEN [images |-> None, sent |-> <<>>]
    ELSE LET image_paths == Unwrap(picked)
             current_image_paths ==
                 {current_images[i].path : i \in 1..Len(current_images)}
             IsNew(image_path) == image_path \notin current_image_paths
             IsDuplicate(image_path) == image_path \in current_image_paths
             fresh == SelectSeq(image_paths, IsNew)
             duplicates == SelectSeq(image_paths, IsDuplicate)
         IN  [images |-> Some([i \in 1..Len(fresh) |-> Image(fresh[i])]),
              sent |-> [i \in 1..Len(duplicates) |->
                          DuplicateMsg(<<file_name(duplicates[i])>>)]]

select_images(current_images, picked) ==
    IF picked = None
    THEN [images |-> None, sent |-> <<>>]
    ELSE LET image_paths == Unwrap(picked)
             current_image_paths ==
                 {current_images[i].path : i \in 1..Len(current_images)}
             IsNew(image_path) == image_path \notin current_image_paths
             IsDuplicate(image_path) == image_path \in current_image_paths
             fresh == SelectSeq(image_paths, IsNew)
             duplicates == SelectSeq(image_paths, IsDuplicate)
             duplicate_image_filenames ==
                 [i \in 1..Len(duplicates) |-> file_name(duplicates[i])]
         IN  [images |-> Some([i \in 1..Len(fresh) |-> Image(fresh[i])]),
              sent |-> IF duplicate_image_filenames # <<>>
                       THEN <<DuplicateMsg(duplicate_image_filenames)>>
                       ELSE <<>>]

PickImages(picked) ==
    /\ uiPc = "widgets"
    /\ FormEnabled
    /\ LET r == select_images(images, picked) IN
       /\ chan' = chan \o r.sent
       /\ IF IsSome(r.images)
          THEN /\ Len(images) + Len(Unwrap(r.images)) <= MaxImages
               /\ images' = images \o Unwrap(r.images)
          ELSE images' = images
    /\ EndFrame(<<"images", picked, images, select_images(images, picked)>>,
                selected_index, persisted)
    /\ UNCHANGED <<pureVars, dialog, is_file, content, categories, title, description,
                   tags, is_tag_menu_open, workers, fs>>

\* a click on row `index` of the table body
ClickRow(index) ==
    /\ uiPc = "widgets"
    /\ FormEnabled
    /\ index \in 0..(Len(images) - 1)
    /\ EndFrame(<<"row", index>>, Some(index), persisted)
    /\ UNCHANGED <<pureVars, dialog, chan, is_file, content, categories, images, title,
                   description, tags, is_tag_menu_open, workers, fs>>

swap(v, a, b) == [v EXCEPT ![a + 1] = v[b + 1], ![b + 1] = v[a + 1]]

remove(v, index) == SubSeq(v, 1, index) \o SubSeq(v, index + 2, Len(v))

ClickMoveUp ==
    /\ uiPc = "widgets"
    /\ FormEnabled
    /\ IsSome(selected_index)
    /\ LET index == Unwrap(selected_index) IN
       IF index # 0
       THEN /\ images' = swap(images, index, index - 1)
            /\ EndFrame(<<"up">>, Some(index - 1), persisted)
       ELSE /\ images' = images
            /\ EndFrame(<<"up">>, selected_index, persisted)
    /\ UNCHANGED <<pureVars, dialog, chan, is_file, content, categories, title, description,
                   tags, is_tag_menu_open, workers, fs>>

ClickMoveDown ==
    /\ uiPc = "widgets"
    /\ FormEnabled
    /\ IsSome(selected_index)
    /\ LET index == Unwrap(selected_index) IN
       IF index # Len(images) - 1
       THEN /\ images' = swap(images, index, index + 1)
            /\ EndFrame(<<"down">>, Some(index + 1), persisted)
       ELSE /\ images' = images
            /\ EndFrame(<<"down">>, selected_index, persisted)
    /\ UNCHANGED <<pureVars, dialog, chan, is_file, content, categories, title, description,
                   tags, is_tag_menu_open, workers, fs>>

ClickRemove ==
    /\ uiPc = "widgets"
    /\ FormEnabled
    /\ IsSome(selected_index)
    /\ images' = remove(images, Unwrap(selected_index))
    /\ EndFrame(<<"remove">>, None, None)
    /\ UNCHANGED <<pureVars, dialog, chan, is_file, content, categories, title, description,
                   tags, is_tag_menu_open, workers, fs>>

(***************************************************************************)
(* Title and description.                                                  *)
(***************************************************************************)
EditTitle(text) ==
    /\ uiPc = "widgets"
    /\ FormEnabled
    /\ title' = text
    /\ EndFrame(<<"title">>, selected_index, persisted)
    /\ UNCHANGED <<pureVars, dialog, chan, is_file, content, categories, images, description,
                   tags, is_tag_menu_open, workers, fs>>

EditDescription(text) ==
    /\ uiPc = "widgets"
    /\ FormEnabled
    /\ description' = text
    /\ EndFrame(<<"description">>, selected_index, persisted)
    /\ UNCHANGED <<pureVars, dialog, chan, is_file, content, categories, images, title,
                   tags, is_tag_menu_open, workers, fs>>

(***************************************************************************)
(* torrent::create_torrent_file, one action per blocking step.             *)
(***************************************************************************)
WorkerSends(w, messages, after) ==
    /\ chan' = chan \o messages
    /\ workers' = [workers EXCEPT ![w] = [after EXCEPT !.sent = @ \o messages]]

\* if !content_path.exists() { send(..) } -- and no return
WorkerCheckPath(w) ==
    /\ w \in 1..Len(workers)
    /\ workers[w].pc = "check"
    /\ IF workers[w].path \notin fs
       THEN WorkerSends(w, <<MissingMsg>>, [workers[w] EXCEPT !.pc = "build"])
       ELSE WorkerSends(w, <<>>, [workers[w] EXCEPT !.pc = "build"])
    /\ UNCHANGED <<pureVars, dialog, is_file, content, categories, images, selected_index,
                   persisted, title, description, tags, is_tag_menu_open, uiPc,
                   lastEvent, fs>>

\* TorrentBuilder::build reads the content: it fails when the path is gone and
\* may fail on any I/O error
BuildResults(path) == IF path \in fs THEN {"Ok", "Err"} ELSE {"Err"}

WorkerBuild(w) ==
    /\ w \in 1..Len(workers)
    /\ workers[w].pc = "build"
    /\ \E torrent \in BuildResults(workers[w].path) :
          LET built == [workers[w] EXCEPT !.torrent = Some(torrent)] IN
          IF torrent = "Ok"
          THEN WorkerSends(w, <<>>, [built EXCEPT !.pc = "write"])
          ELSE WorkerSends(w, <<BuildFailedMsg>>, [built EXCEPT !.pc = "done"])
    /\ UNCHANGED <<pureVars, dialog, is_file, content, categories, images, selected_index,
                   persisted, title, description, tags, is_tag_menu_open, uiPc,
                   lastEvent, fs>>

WorkerWrite(w) ==
    /\ w \in 1..Len(workers)
    /\ workers[w].pc = "write"
    /\ \E written \in {"Ok", "Err"} :
          LET wrote == [workers[w] EXCEPT !.written = Some(written), !.pc = "done"] IN
          IF written = "Ok"
          THEN WorkerSends(w, <<WrittenMsg>>, wrote)
          ELSE WorkerSends(w, <<WriteFailedMsg>>, wrote)
    /\ UNCHANGED <<pureVars, dialog, is_file, content, categories, images, selected_index,
                   persisted, title, description, tags, is_tag_menu_open, uiPc,
                   lastEvent, fs>>

(***************************************************************************)
(* The file system changes under the application.                          *)
(***************************************************************************)
EnvRemoveContent ==
    /\ ContentPath \in fs
    /\ fs' = fs \ {ContentPath}
    /\ UNCHANGED <<pureVars, dialog, chan, is_file, content, categories, images,
                   selected_index, persisted, title, description, tags,
                   is_tag_menu_open, uiPc, lastEvent, workers>>

EnvCreateContent ==
    /\ ContentPath \notin fs
    /\ fs' = fs \cup {ContentPath}
    /\ UNCHANGED <<pureVars, dialog, chan, is_file, content, categories, images,
                   selected_index, persisted, title, description, tags,
                   is_tag_menu_open, uiPc, lastEvent, workers>>

(***************************************************************************)
(* The upload protocol: the user fills the form in with one value per      *)
(* field, uploads, dismisses dialogs and picks an attached image again;    *)
(* the workers and the file system run beside the render thread.           *)
(***************************************************************************)
RenderStep ==
    \/ PollDialogChannel
    \/ FrameIdle
    \/ ClickDialogOk
    \/ ClickUploadTorrent
    \/ PickContent(Some(ContentPath))
    \/ ChooseCategory(0, "Amateur")
    \/ PickImages(Some(<<CHOOSE p \in ImagePaths : TRUE>>))
    \/ EditTitle(<<"x">>)
    \/ EditDescription(<<"x">>)

WorkerStep ==
    \E w \in 1..MaxUploads : WorkerCheckPath(w) \/ WorkerBuild(w) \/ WorkerWrite(w)

EnvStep == EnvRemoveContent \/ EnvCreateContent

\* no password prompt is open
PromptIdle ==
    /\ prompt = [username |-> <<>>, password |-> <<>>, is_authenticated |-> FALSE]
    /\ frame_closed = FALSE
    /\ login_call = None

\* no table is being built or drawn
WidthsIdle == columns = <<>> /\ rect_width = 0 /\ vscroll = FALSE /\ widths_result = None
BodyIdle == data_persisted = None /\ body_call = None
RowIdle ==
    /\ row = [widths |-> <<>>, layout |-> <<>>, column_no |-> 0]
    /\ row_cells = <<>>
    /\ row_panic = None

\* no configuration is being loaded
ConfigIdle ==
    /\ config_file = [kind |-> "missing"]
    /\ config_writable = TRUE
    /\ load_call = None

PieceIdle == total_length = {} /\ piece_length = None
VersionIdle == version_a = <<0, 0, 0>> /\ version_b = <<0, 0, 0>> /\ ordering = None
LoginIdle == username = <<>> /\ password = <<>> /\ boundary = None /\ form = None

WidgetIdle == PromptIdle /\ WidthsIdle /\ BodyIdle /\ ConfigIdle /\ RowIdle

\* no function of the function specifications has been called
PureIdle ==
    /\ total_length = {} /\ piece_length = None
    /\ version_a = <<0, 0, 0>> /\ version_b = <<0, 0, 0>> /\ ordering = None
    /\ username = <<>> /\ password = <<>> /\ boundary = None /\ form = None
    /\ WidgetIdle

Init == QtmNew /\ PureIdle

Next == RenderStep \/ WorkerStep \/ EnvStep

Spec == Init /\ [][Next]_vars


(***************************************************************************)
(* The whole form: the user fills it in with blank and non-blank texts,    *)
(* opens and closes the tag menu, uploads and dismisses dialogs.           *)
(***************************************************************************)
\* the "+" tag at the end of the tags row
ClickTagMenu ==
    /\ uiPc = "widgets"
    /\ FormEnabled
    /\ is_tag_menu_open' = ~is_tag_menu_open
    /\ EndFrame(<<"tag menu">>, selected_index, persisted)
    /\ UNCHANGED <<pureVars, dialog, chan, is_file, content, categories, images, title,
                   description, tags, workers, fs>>

\* the OK button of the "tags" window
ClickTagMenuOk ==
    /\ uiPc = "widgets"
    /\ is_tag_menu_open
    /\ is_tag_menu_open' = FALSE
    /\ EndFrame(<<"tag menu ok">>, selected_index, persisted)
    /\ UNCHANGED <<pureVars, dialog, chan, is_file, content, categories, images, title,
                   description, tags, workers, fs>>

\* an unwrap() on the way to TorrentBuilder::build fails: the thread unwinds
\* and drops its sender
WorkerPanic(w) ==
    /\ w \in 1..Len(workers)
    /\ workers[w].pc = "build"
    /\ workers' = [workers EXCEPT ![w].pc = "panicked"]
    /\ UNCHANGED <<pureVars, dialog, chan, is_file, content, categories, images,
                   selected_index, persisted, title, description, tags,
                   is_tag_menu_open, uiPc, lastEvent, fs>>

FormTexts == {<<>>, <<" ", "\n">>, <<" ", "x", "\n">>}

NextForm ==
    \/ PollDialogChannel
    \/ FrameIdle
    \/ ClickDialogOk
    \/ ClickUploadTorrent
    \/ PickContent(Some(ContentPath))
    \/ ChooseCategory(0, "Amateur")
    \/ PickImages(Some(<<CHOOSE p \in ImagePaths : TRUE>>))
    \/ \E text \in FormTexts : EditTitle(text)
    \/ \E text \in FormTexts : EditDescription(text)
    \/ ClickTagMenu
    \/ ClickTagMenuOk
    \/ WorkerStep

SpecForm == Init /\ [][NextForm]_vars

\* the upload protocol with workers that may panic
NextPanic == Next \/ \E w \in 1..MaxUploads : WorkerPanic(w)

SpecPanic == Init /\ [][NextPanic]_vars

HasNonWhitespace(text) == \E i \in 1..Len(text) : text[i] \notin White_Space

\* C12: a worker thread is spawned only in a state where content is
\* selected, categories[0] is not Category::None, at least one image is
\* attached, title and description each hold a non-whitespace character, no
\* dialog is open and the tag menu is closed.
C12_UploadGuard ==
    [][Len(workers') > Len(workers) =>
          /\ IsSome(content)
          /\ categories[0] # CategoryNone
          /\ Len(images) >= 1
          /\ HasNonWhitespace(title)
          /\ HasNonWhitespace(description)
          /\ dialog = None
          /\ ~is_tag_menu_open]_vars

\* an upload went through with a title that has blanks around its text
C12_UploadedPaddedTitle ==
    /\ lastEvent = <<"upload">>
    /\ workers # <<>>
    /\ title = <<" ", "x", "\n">>

\* C13: the poll of the dialog channel never observes
\* TryRecvError::Disconnected, so update() never panics on that branch,
\* whatever the workers have done with their sender clones.
C13_NeverDisconnected ==
    /\ uiPc # "panicked"
    /\ LET r == try_recv(chan, Senders) IN
       r.result[1] = "Err" => r.result[2] = "Empty"

\* a frame polled the empty channel after every worker had returned or
\* panicked
C13_PolledAfterWorkersGone ==
    /\ workers # <<>>
    /\ RunningWorkers = {}
    /\ \E w \in 1..Len(workers) : workers[w].pc = "panicked"
    /\ chan = <<>>
    /\ uiPc = "widgets"

(***************************************************************************)
(* The category selectors alone: the user chooses any offered entry at any *)
(* enabled level.                                                          *)
(***************************************************************************)
NextCategories ==
    \/ PollDialogChannel
    \/ FrameIdle
    \/ \E number \in Levels, category \in Category : ChooseCategory(number, category)

SpecCategories == Init /\ [][NextCategories]_vars

\* C1: category sub-levels reset when a parent changes: after an entry is
\* chosen in the level-n selector every level above n is Category::None and
\* every level below n is what it was before.
C1_SubLevelsReset ==
    lastEvent[1] = "category" =>
        LET number == lastEvent[2]
            before == lastEvent[3]
        IN  \A m \in Levels :
                /\ m > number => categories[m] = CategoryNone
                /\ m < number => categories[m] = before[m]

\* an entry was chosen at level 1 while levels 2 and 3 were set
C1_ParentChangedUnderSetLevels ==
    /\ lastEvent[1] = "category"
    /\ lastEvent[2] = 1
    /\ lastEvent[3][0] # CategoryNone
    /\ lastEvent[3][2] # CategoryNone
    /\ lastEvent[3][3] # CategoryNone
    /\ categories[1] # CategoryNone

(***************************************************************************)
(* The image list alone: the user picks any list of image files (or        *)
(* cancels), selects rows, moves and removes them, and dismisses the       *)
(* "Duplicate image" dialog.                                               *)
(***************************************************************************)
ImagePicks ==
    {None} \cup {Some(s) : s \in UNION {[1..k -> ImagePaths] : k \in 1..MaxPick}}

NextImages ==
    \/ PollDialogChannel
    \/ FrameIdle
    \/ ClickDialogOk
    \/ \E picked \in ImagePicks : PickImages(picked)
    \/ \E index \in 0..(MaxImages - 1) : ClickRow(index)
    \/ ClickMoveUp
    \/ ClickMoveDown
    \/ ClickRemove

SpecImages == Init /\ [][NextImages]_vars

\* the k-th smallest member of a set of indexes
Nth(indexes, k) ==
    CHOOSE i \in indexes : Cardinality({j \in indexes : j < i}) = k - 1

\* C18: select_images returns, in pick order, exactly the picked paths that
\* are not already in current_images; it sends one "Duplicate image"
\* message with an OK button, listing the filename of every rejected path,
\* if and only if a picked path was already attached; a cancelled picker
\* returns None and sends nothing.
C18_SelectImages ==
    lastEvent[1] = "images" =>
        LET picked == lastEvent[2]
            current_images == lastEvent[3]
            returned == lastEvent[4]
            attached == {current_images[i].path : i \in 1..Len(current_images)}
        IN  IF picked = None
            THEN returned.images = None /\ returned.sent = <<>>
            ELSE LET paths == Unwrap(picked)
                     kept == {i \in 1..Len(paths) : paths[i] \notin attached}
                     rejected == {i \in 1..Len(paths) : paths[i] \in attached}
                 IN  /\ IsSome(returned.images)
                     /\ Len(Unwrap(returned.images)) = Cardinality(kept)
                     /\ \A k \in 1..Cardinality(kept) :
                            Unwrap(returned.images)[k].path = paths[Nth(kept, k)]
                     /\ IF rejected = {}
                        THEN returned.sent = <<>>
                        ELSE /\ Len(returned.sent) = 1
                             /\ returned.sent[1].is_ok_showing
                             /\ returned.sent[1].text =
                                    <<"Duplicate image:", "">>
                                    \o [k \in 1..Cardinality(rejected) |->
                                           file_name(paths[Nth(rejected, k)])]

\* one picked path was attached already, the other was new
C18_OneRejectedOneKept ==
    /\ lastEvent[1] = "images"
    /\ lastEvent[2] = Some(<< <<"pics", "a.png">>, <<"more", "a.png">> >>)
    /\ lastEvent[3] = <<Image(<<"pics", "a.png">>)>>
    /\ Len(Unwrap(lastEvent[4].images)) = 1
    /\ Len(lastEvent[4].sent) = 1

\* C2: no two entries of Qtm.images have the same path.
C2_NoDuplicateImagePaths ==
    \A i, j \in 1..Len(images) : i # j => images[i].path # images[j].path

(***************************************************************************)
(* Properties of the upload protocol.                                      *)
(***************************************************************************)
\* C3: the render thread is not blocked while the torrent file is built:
\* the poll of the dialog channel at the start of every frame returns
\* whatever the channel holds, and as long as a worker is running the render
\* thread can take its next step, be it the poll or the widgets of the frame.
C3_RenderThreadNotBlocked ==
    /\ uiPc = "poll" => ENABLED PollDialogChannel
    /\ RunningWorkers # {} => ENABLED RenderStep

\* a frame has polled the empty channel and gone on to its widgets while the
\* worker was still building
C3_PolledEmptyWhileBuilding ==
    /\ RunningWorkers # {}
    /\ dialog = Some(CreatingMsg)
    /\ chan = <<>>
    /\ uiPc = "widgets"
    /\ lastEvent = <<"none">>

\* C4: every run of create_torrent_file sends exactly one DialogMessage: never
\* more than one, and one by the time it returns.
C4_WorkerSendsOneMessage ==
    \A w \in 1..Len(workers) :
        /\ Len(workers[w].sent) <= 1
        /\ workers[w].pc = "done" => Len(workers[w].sent) = 1

\* C11: a run of create_torrent_file that finds the content path missing
\* sends "Content path does not exist; upload aborted" and stops: it builds
\* no torrent, writes no file and sends nothing else.
C11_MissingPathAborts ==
    \A w \in 1..Len(workers) :
        MissingMsg \in Range(workers[w].sent) =>
            /\ workers[w].sent = <<MissingMsg>>
            /\ workers[w].torrent = None
            /\ workers[w].written = None

\* C19: "Torrent has been written to disk successfully" is sent only after
\* the build and write_into_file both returned Ok; a run whose build failed
\* has sent only "Failed to create torrent", a run whose write failed only
\* "Failed to write torrent to disk"; every message of a worker has an OK
\* button.
C19_WorkerMessages ==
    \A w \in 1..Len(workers) :
        LET sent == workers[w].sent IN
        /\ WrittenMsg \in Range(sent) =>
               workers[w].torrent = Some("Ok") /\ workers[w].written = Some("Ok")
        /\ workers[w].torrent = Some("Err") => sent = <<BuildFailedMsg>>
        /\ workers[w].written = Some("Err") => sent = <<WriteFailedMsg>>
        /\ \A i \in 1..Len(sent) : sent[i].is_ok_showing

\* C5: at most one create_torrent_file worker is running.
C5_SingleWorker ==
    Cardinality(RunningWorkers) <= 1

\* C6: the frame after the click on Upload shows the "Creating torrent..."
\* dialog, which has no OK button.
C6_CreatingShownNextFrame ==
    (uiPc = "widgets" /\ lastEvent = <<"upload">>) => dialog = Some(CreatingMsg)


(***************************************************************************)
(* torrent::calculate_piece_length.                                        *)
(*                                                                         *)
(* A u64 is the set of the positions of its one bits, so that every value  *)
(* up to u64::MAX is at hand; arithmetic is on the bits, 64 wide.          *)
(***************************************************************************)
U64Bits == 64
U64 == SUBSET (0..(U64Bits - 1))

Max(S) == CHOOSE x \in S : \A y \in S : y <= x
Min(S) == CHOOSE x \in S : \A y \in S : x <= y

u64_lt(a, b) == a # b /\ Max((a \ b) \cup (b \ a)) \in b
u64_le(a, b) == a = b \/ u64_lt(a, b)

\* a result is a value or a panic
Value(v) == [panic |-> FALSE, value |-> v]
Panic == [panic |-> TRUE, value |-> {}]

\* total_length /= 1024
u64_div_1024(x) == {i - 10 : i \in {j \in x : j >= 10}}

\* total_length += 1, which panics on overflow
u64_add_one(x) ==
    LET k == Min((0..U64Bits) \ x) IN
    IF k = U64Bits THEN Panic ELSE Value({i \in x : i > k} \cup {k})

\* u64::ilog2, which panics on zero
ilog2(x) == IF x = {} THEN Panic ELSE Value(Max(x))

\* 2u64.pow(exp), which panics on overflow
u64_pow2(exp) == IF exp >= U64Bits THEN Panic ELSE Value({exp})

u64_min(a, b) == IF u64_lt(b, a) THEN b ELSE a
u64_max(a, b) == IF u64_lt(a, b) THEN b ELSE a

PieceLengthCapLog2 == 20

\* calculate_piece_length without its `total_length += 1`
calculate_piece_length_no_increment(length) ==
    LET log == ilog2(u64_div_1024(length)) IN
    IF log.panic THEN Panic
    ELSE Value(u64_min(u64_pow2(log.value).value, u64_pow2(PieceLengthCapLog2).value))

\* calculate_piece_length with max in place of min
calculate_piece_length_max(length) ==
    LET sum == u64_add_one(u64_div_1024(length)) IN
    IF sum.panic THEN Panic
    ELSE LET log == ilog2(sum.value) IN
         IF log.panic THEN Panic
         ELSE LET power == u64_pow2(log.value) IN
              IF power.panic THEN Panic
              ELSE Value(u64_max(power.value, u64_pow2(PieceLengthCapLog2).value))

calculate_piece_length(length) ==
    LET sum == u64_add_one(u64_div_1024(length)) IN
    IF sum.panic THEN Panic
    ELSE LET log == ilog2(sum.value) IN
         IF log.panic THEN Panic
         ELSE LET power == u64_pow2(log.value) IN
              IF power.panic THEN Panic
              ELSE Value(u64_min(power.value, u64_pow2(PieceLengthCapLog2).value))

(***************************************************************************)
(* The lengths the function is tried on: the smallest ones, every power of *)
(* two and its predecessor, and the neighbourhood of every length at which  *)
(* total_length / 1024 + 1 reaches a power of two.                          *)
(***************************************************************************)
MaxSmall == 4
EdgeWidth == 2

\* the u64 of a natural number below 2^31
ToU64(n) == {i \in 0..30 : (n \div (2 ^ i)) % 2 = 1}

\* the natural number of a u64 below 2^31
RECURSIVE ToNat(_)
ToNat(x) == IF x = {} THEN 0 ELSE (2 ^ Max(x)) + ToNat(x \ {Max(x)})

u64_sub_one(x) == LET k == Min(x) IN {i \in x : i > k} \cup (0..(k - 1))

RECURSIVE u64_plus(_, _)
u64_plus(x, d) ==
    IF d = 0 THEN x
    ELSE IF d > 0 THEN u64_plus(u64_add_one(x).value, d - 1)
    ELSE u64_plus(u64_sub_one(x), d + 1)

\* (2^e - 1) * 1024, the least length whose quotient plus one is 2^e
Threshold(e) == {i \in 0..(U64Bits - 1) : 10 <= i /\ i <= e + 9}

PieceInputs ==
    {ToU64(n) : n \in 0..MaxSmall}
    \cup {{e} : e \in 0..(U64Bits - 1)}
    \cup {0..e : e \in 0..(U64Bits - 1)}
    \cup {u64_plus(Threshold(e), d) : e \in 1..(U64Bits - 10), d \in (-EdgeWidth)..EdgeWidth}

InitPiece ==
    /\ QtmNew
    /\ WidgetIdle
    /\ total_length \in PieceInputs /\ piece_length = None
    /\ version_a = <<0, 0, 0>> /\ version_b = <<0, 0, 0>> /\ ordering = None
    /\ username = <<>> /\ password = <<>> /\ boundary = None /\ form = None

CalculatePieceLength ==
    /\ piece_length = None
    /\ piece_length' = Some(calculate_piece_length(total_length))
    /\ UNCHANGED <<guiVars, total_length, versionVars, loginVars, widgetVars>>

SpecPiece == InitPiece /\ [][CalculatePieceLength]_vars

\* C7: for every u64 total_length calculate_piece_length returns, without
\* panic or overflow, min(2^floor(log2(total_length / 1024 + 1)), 2^20): a
\* power of two 2^e with e <= 20, where e = 20 or
\* (2^e - 1) * 1024 <= total_length < (2^(e+1) - 1) * 1024; and the result is
\* non-decreasing in total_length.
C7_PieceLength ==
    piece_length # None =>
        /\ ~Unwrap(piece_length).panic
        /\ \E e \in 0..PieceLengthCapLog2 :
              /\ Unwrap(piece_length).value = {e}
              /\ u64_le(Threshold(e), total_length)
              /\ e < PieceLengthCapLog2 => u64_lt(total_length, Threshold(e + 1))
        /\ \A smaller \in PieceInputs :
              u64_le(smaller, total_length) =>
                  /\ ~calculate_piece_length(smaller).panic
                  /\ u64_le(calculate_piece_length(smaller).value, Unwrap(piece_length).value)

\* the piece length of u64::MAX has been calculated
C7_MaxLengthDone ==
    /\ total_length = 0..(U64Bits - 1)
    /\ piece_length # None

\* C8: for 1024 <= total_length < 2^30 the number of pieces,
\* ceil(total_length / piece length), is at least 512 and at most 2048.
PieceCount ==
    (ToNat(total_length) + ToNat(Unwrap(piece_length).value) - 1) \div ToNat(Unwrap(piece_length).value)

InPieceCountRange ==
    /\ u64_le({10}, total_length)
    /\ u64_lt(total_length, {30})

C8_PieceCount ==
    (piece_length # None /\ InPieceCountRange) =>
        /\ ~Unwrap(piece_length).panic
        /\ 512 <= PieceCount /\ PieceCount <= 2048

\* a length in the range that is cut into 2048 pieces
C8_CutInto2048 ==
    /\ piece_length # None
    /\ InPieceCountRange
    /\ ~Unwrap(piece_length).panic
    /\ PieceCount = 2048


(***************************************************************************)
(* qtm_config::QtmVersion(u8, u8, u8) and its Ord.                         *)
(***************************************************************************)
MaxComponent == 2

QtmVersion == (0..MaxComponent) \X (0..MaxComponent) \X (0..MaxComponent)

\* u8::cmp
u8_cmp(x, y) == IF x < y THEN "Less" ELSE IF x = y THEN "Equal" ELSE "Greater"

\* a cmp that takes the patch for the minor and the minor for the patch
cmp_patch_before_minor(self, other) ==
    IF self[1] = other[1]
    THEN IF self[3] = other[3]
         THEN u8_cmp(self[2], other[2])
         ELSE u8_cmp(self[3], other[3])
    ELSE u8_cmp(self[1], other[1])

cmp(self, other) ==
    IF self[1] = other[1]
    THEN IF self[2] = other[2]
         THEN u8_cmp(self[3], other[3])
         ELSE u8_cmp(self[2], other[2])
    ELSE u8_cmp(self[1], other[1])

\* #[derive(PartialEq, Eq)]
version_eq(self, other) ==
    self[1] = other[1] /\ self[2] = other[2] /\ self[3] = other[3]

InitVersion ==
    /\ QtmNew
    /\ WidgetIdle
    /\ total_length = {} /\ piece_length = None
    /\ version_a \in QtmVersion /\ version_b \in QtmVersion /\ ordering = None
    /\ username = <<>> /\ password = <<>> /\ boundary = None /\ form = None

CompareVersions ==
    /\ ordering = None
    /\ ordering' = Some(cmp(version_a, version_b))
    /\ UNCHANGED <<guiVars, pieceVars, version_a, version_b, loginVars, widgetVars>>

SpecVersion == InitVersion /\ [][CompareVersions]_vars

\* a is smaller than b in the first component where they differ
FirstDifferenceSmaller(a, b) ==
    \E i \in 1..3 : a[i] < b[i] /\ \A j \in 1..(i - 1) : a[j] = b[j]

\* C9: QtmVersion comparison is the lexicographic order on (major, minor,
\* patch): a < b iff a is smaller in the first component where they differ,
\* cmp is Equal exactly when a == b, and the order is total, antisymmetric
\* and transitive.
C9_LexicographicOrder ==
    ordering # None =>
        LET a == version_a
            b == version_b
            o == Unwrap(ordering)
        IN  /\ o = "Less" <=> FirstDifferenceSmaller(a, b)
            /\ o = "Equal" <=> version_eq(a, b)
            /\ o = "Greater" <=> cmp(b, a) = "Less"
            /\ o = "Less" <=> cmp(b, a) = "Greater"
            /\ \A c \in QtmVersion :
                  (o # "Greater" /\ cmp(b, c) # "Greater") =>
                      /\ cmp(a, c) # "Greater"
                      /\ cmp(a, c) = "Equal" => (o = "Equal" /\ cmp(b, c) = "Equal")

\* two versions of one major whose minor and patch point opposite ways
C9_MinorDecides ==
    /\ ordering = Some("Less")
    /\ version_a[1] = version_b[1]
    /\ version_a[2] < version_b[2]
    /\ version_a[3] > version_b[3]

(***************************************************************************)
(* qtm_networking: the body of the login request.  A string is a sequence  *)
(* of characters; the fixed text of a header is kept as one piece.         *)
(***************************************************************************)
CRLF == <<"\r", "\n">>
Dashes == <<"-", "-">>

HexDigits == <<"0", "1", "2", "3", "4", "5", "6", "7",
               "8", "9", "a", "b", "c", "d", "e", "f">>

\* {:x}
RECURSIVE LowerHex(_)
LowerHex(n) ==
    IF n < 16 THEN <<HexDigits[n + 1]>>
    ELSE LowerHex(n \div 16) \o <<HexDigits[(n % 16) + 1]>>

HexWidth == 16

\* {:016x}
LowerHex016(n) ==
    LET digits == LowerHex(n) IN
    [i \in 1..(HexWidth - Len(digits)) |-> "0"] \o digits

generate_boundary(a, b) == LowerHex016(a) \o Dashes \o LowerHex016(b)

get_form_part(value) ==
    <<"Content-Disposition: form-data; Content-Type: text/plain; charset=utf8; name=">>
    \o <<"\"">> \o value \o <<"\"">>

ReturnTo == <<"/genrelist.php">>

get_login_form(user, pass, bound) ==
    Dashes \o bound \o CRLF
    \o get_form_part(<<"username">>) \o CRLF \o CRLF \o user \o CRLF
    \o Dashes \o bound \o CRLF
    \o Dashes \o bound \o CRLF
    \o get_form_part(<<"password">>) \o CRLF \o CRLF \o pass \o CRLF
    \o Dashes \o bound \o CRLF
    \o Dashes \o bound \o CRLF
    \o get_form_part(<<"returnto">>) \o CRLF \o CRLF \o ReturnTo \o CRLF
    \o Dashes \o bound \o CRLF
    \o Dashes \o bound \o Dashes \o CRLF

\* what the user types, and what the random generator yields
Usernames == {<<"u">>, <<"u", "1">>, <<"a", "-", "b">>}
Passwords == {<<"p">>, <<"p", " ", "w">>, <<"-", "-">>}
RandomU64s == {0, 10, 255}

InitLogin ==
    /\ QtmNew
    /\ WidgetIdle
    /\ total_length = {} /\ piece_length = None
    /\ version_a = <<0, 0, 0>> /\ version_b = <<0, 0, 0>> /\ ordering = None
    /\ username \in Usernames /\ password \in Passwords
    /\ boundary = None /\ form = None

GenerateBoundary ==
    /\ boundary = None
    /\ \E a, b \in RandomU64s : boundary' = Some(generate_boundary(a, b))
    /\ UNCHANGED <<guiVars, pieceVars, versionVars, username, password, form, widgetVars>>

GetLoginForm ==
    /\ boundary # None
    /\ form = None
    /\ form' = Some(get_login_form(username, password, Unwrap(boundary)))
    /\ UNCHANGED <<guiVars, pieceVars, versionVars, username, password, boundary, widgetVars>>

NextLogin == GenerateBoundary \/ GetLoginForm

SpecLogin == InitLogin /\ [][NextLogin]_vars

\* the lines of a body, each ended by CRLF
LineEnds(text) ==
    {i \in 1..(Len(text) - 1) : text[i] = "\r" /\ text[i + 1] = "\n"}

NthLineEnd(text, k) ==
    CHOOSE i \in LineEnds(text) :
        Cardinality({j \in LineEnds(text) : j < i}) = k - 1

Lines(text) ==
    LET count == Cardinality(LineEnds(text))
        start(k) == IF k = 1 THEN 1 ELSE NthLineEnd(text, k - 1) + 2
        rest == SubSeq(text, start(count + 1), Len(text))
    IN  [k \in 1..count |-> SubSeq(text, start(k), NthLineEnd(text, k) - 1)]
        \o (IF rest = <<>> THEN <<>> ELSE <<rest>>)

\* C10: the login body is standard multipart/form-data: three parts
\* (username, password, returnto=/genrelist.php, in this order), each
\* introduced by exactly one delimiter line "--boundary", and one closing
\* delimiter "--boundary--" at the end.
C10_StandardMultipart ==
    form # None =>
        LET lines == Lines(Unwrap(form))
            delimiter == Dashes \o Unwrap(boundary)
            closing == Dashes \o Unwrap(boundary) \o Dashes
        IN  lines = << delimiter, get_form_part(<<"username">>), <<>>, username,
                       delimiter, get_form_part(<<"password">>), <<>>, password,
                       delimiter, get_form_part(<<"returnto">>), <<>>, ReturnTo,
                       closing >>

(***************************************************************************)
(* password_prompt: the window shown before the application, and the       *)
(* outcome of QtmNetworking::login.                                        *)
(***************************************************************************)
\* where the tracker redirects a login request to
UrlPaths == {"/genrelist.php", "/takelogin.php", "/index.php"}

\* request.send(): an error, or a response with the path of its final URL
Responses == {[sent |-> "Err"]} \cup {[sent |-> "Ok", path |-> p] : p \in UrlPaths}

\* a login that trusts every response
login_any_response(user, pass, response) == response.sent = "Ok"

login(user, pass, response) ==
    IF response.sent = "Ok"
    THEN IF response.path = "/genrelist.php" THEN TRUE
         ELSE IF response.path = "/takelogin.php" THEN FALSE
         ELSE FALSE
    ELSE FALSE

\* characters: three ASCII ones; "e-acute" stands for U+00E9
AsciiChars == {"u", "p", "1"}
is_ascii(text) == \A i \in 1..Len(text) : text[i] \in AsciiChars

is_valid ==
    /\ prompt.username # <<>>
    /\ is_ascii(prompt.username)
    /\ prompt.password # <<>>
    /\ is_ascii(prompt.password)

PromptTexts == {<<>>, <<"u">>, <<"p", "1">>, <<"e-acute">>}

\* the flag the caller of PasswordPrompt::new hands in
IsAuthenticatedNew == FALSE

PromptNew ==
    /\ prompt = [username |-> <<>>, password |-> <<>>,
                 is_authenticated |-> IsAuthenticatedNew]
    /\ frame_closed = FALSE
    /\ login_call = None

EditUsername(text) ==
    /\ ~frame_closed
    /\ prompt' = [prompt EXCEPT !.username = text]
    /\ UNCHANGED <<guiVars, pieceVars, versionVars, loginVars, frame_closed, login_call,
                   widthsVars, bodyVars, configVars, rowVars>>

EditPassword(text) ==
    /\ ~frame_closed
    /\ prompt' = [prompt EXCEPT !.password = text]
    /\ UNCHANGED <<guiVars, pieceVars, versionVars, loginVars, frame_closed, login_call,
                   widthsVars, bodyVars, configVars, rowVars>>

\* the calls of login are told apart by a tick
NextTick == IF login_call = None THEN 1 ELSE 1 - Unwrap(login_call).tick

authenticate(response) ==
    LET result == login(prompt.username, prompt.password, response) IN
    /\ login_call' = Some([response |-> response, result |-> result, tick |-> NextTick])
    /\ IF result
       THEN /\ prompt' = [prompt EXCEPT !.is_authenticated = TRUE]
            /\ frame_closed' = TRUE
       ELSE /\ prompt' = [prompt EXCEPT !.username = <<>>, !.password = <<>>]
            /\ frame_closed' = frame_closed
    /\ UNCHANGED <<guiVars, pieceVars, versionVars, loginVars,
                   widthsVars, bodyVars, configVars, rowVars>>

\* the LOG IN button, enabled by is_valid
ClickLogIn ==
    /\ ~frame_closed
    /\ is_valid
    /\ \E response \in Responses : authenticate(response)

\* Enter in the password field
PressEnter ==
    /\ ~frame_closed
    /\ \E response \in Responses : authenticate(response)

InitPrompt ==
    /\ QtmNew
    /\ PieceIdle /\ VersionIdle /\ LoginIdle
    /\ PromptNew
    /\ WidthsIdle /\ BodyIdle /\ ConfigIdle /\ RowIdle

NextPrompt ==
    \/ \E text \in PromptTexts : EditUsername(text)
    \/ \E text \in PromptTexts : EditPassword(text)
    \/ ClickLogIn
    \/ PressEnter

SpecPrompt == InitPrompt /\ [][NextPrompt]_vars

Authenticated == [sent |-> "Ok", path |-> "/genrelist.php"]

MaxColumns == 3

Fixed(width) == <<"Fixed", width>>
Remainder == <<"Remainder">>

\* ui.spacing(): item_spacing.x, and the three parts of the scroll bar
ItemSpacingX == 8
ScrollBarInnerMargin == 4
ScrollBarWidth == 8
ScrollBarOuterMargin == 0

scroll_width(vs) ==
    IF vs THEN ScrollBarInnerMargin + ScrollBarWidth + ScrollBarOuterMargin ELSE 0

avaialble_width(rect, vs) == rect - scroll_width(vs)

Fraction(num, den) == [num |-> num, den |-> den]

RECURSIVE SubtractFixed(_, _)
SubtractFixed(remaining_width, cols) ==
    IF cols = <<>> THEN remaining_width
    ELSE SubtractFixed(IF Head(cols)[1] = "Fixed"
                       THEN remaining_width - Head(cols)[2]
                       ELSE remaining_width,
                       Tail(cols))

CountRemainder(cols) == Cardinality({i \in 1..Len(cols) : cols[i] = Remainder})

\* widths with the remaining width shared between all columns
widths_by_column_count(cols, rect, vs) ==
    LET remaining_width ==
            SubtractFixed(avaialble_width(rect, vs) - ItemSpacingX * (Len(cols) - 1), cols)
    IN  IF cols = <<>> THEN {[panic |-> TRUE]}
        ELSE {[panic |-> FALSE,
               widths |-> [i \in 1..Len(cols) |->
                             IF cols[i][1] = "Fixed" THEN Fraction(cols[i][2], 1)
                             ELSE IF remaining_width > 0
                             THEN Fraction(remaining_width, Len(cols))
                             ELSE Fraction(0, 1)],
               total |-> rect]}

\* the outcomes of widths(): with no column, `columns.len() - 1` overflows,
\* which panics in a build with overflow checks and wraps in one without
widths(cols, rect, vs) ==
    IF cols = <<>>
    THEN {[panic |-> TRUE],
          [panic |-> FALSE, widths |-> <<>>, total |-> "wrapped"]}
    ELSE LET available_width == avaialble_width(rect, vs)
             remainder_count == CountRemainder(cols)
             remaining_width ==
                 SubtractFixed(available_width - ItemSpacingX * (Len(cols) - 1), cols)
         IN  {[panic |-> FALSE,
               widths |-> [i \in 1..Len(cols) |->
                             IF cols[i][1] = "Fixed" THEN Fraction(cols[i][2], 1)
                             ELSE IF remaining_width > 0
                             THEN Fraction(remaining_width, remainder_count)
                             ELSE Fraction(0, 1)],
               total |-> rect - (IF remainder_count = 0 THEN remaining_width ELSE 0)]}

FixedWidths == {20, 50}
RectWidths == {0, 30, 100, 101, 200}

Columns ==
    UNION {[1..n -> {Fixed(w) : w \in FixedWidths} \cup {Remainder}] : n \in 0..MaxColumns}

InitWidths ==
    /\ QtmNew
    /\ PieceIdle /\ VersionIdle /\ LoginIdle
    /\ PromptIdle /\ BodyIdle /\ ConfigIdle /\ RowIdle
    /\ columns \in Columns
    /\ rect_width \in RectWidths
    /\ vscroll \in BOOLEAN
    /\ widths_result = None

Widths ==
    /\ widths_result = None
    /\ \E result \in widths(columns, rect_width, vscroll) : widths_result' = Some(result)
    /\ UNCHANGED <<guiVars, pieceVars, versionVars, loginVars, promptVars,
                   columns, rect_width, vscroll, bodyVars, configVars, rowVars>>

SpecWidths == InitWidths /\ [][Widths]_vars

RECURSIVE SumOfFixed(_)
SumOfFixed(cols) ==
    IF cols = <<>> THEN 0
    ELSE (IF Head(cols)[1] = "Fixed" THEN Head(cols)[2] ELSE 0) + SumOfFixed(Tail(cols))

\* the sum of fractions whose denominators all divide `den`, times `den`
RECURSIVE SumTimes(_, _)
SumTimes(fractions, den) ==
    IF fractions = <<>> THEN 0
    ELSE (Head(fractions).num * den) \div Head(fractions).den
         + SumTimes(Tail(fractions), den)

\* C15: every Fixed column gets exactly its width; every Remainder column
\* gets an equal share of (available width - scroll bar width - item
\* spacing * (columns - 1) - sum of fixed widths), or 0 when that amount is
\* not positive; with a remainder column and a positive amount, the widths
\* and the spacing between them add up to the available width minus the
\* scroll bar.
C15_ColumnWidths ==
    (widths_result # None /\ ~Unwrap(widths_result).panic) =>
        LET result == Unwrap(widths_result).widths
            count == CountRemainder(columns)
            between == ItemSpacingX * (Len(columns) - 1)
            amount == rect_width - scroll_width(vscroll) - between - SumOfFixed(columns)
        IN  /\ Len(result) = Len(columns)
            /\ \A i \in 1..Len(columns) :
                   IF columns[i][1] = "Fixed"
                   THEN result[i].num = columns[i][2] * result[i].den
                   ELSE IF amount > 0
                   THEN result[i].num * count = amount * result[i].den
                   ELSE result[i].num = 0
            /\ (count >= 1 /\ amount > 0) =>
                   SumTimes(result, count) + between * count
                       = (rect_width - scroll_width(vscroll)) * count

\* two remainder columns shared what a fixed column and the scroll bar left
C15_TwoRemaindersShare ==
    /\ widths_result # None
    /\ vscroll
    /\ rect_width = 101
    /\ columns = <<Fixed(20), Remainder, Remainder>>
    /\ Unwrap(widths_result).widths[2] = Fraction(53, 2)

(***************************************************************************)
(* selectable_table: Table::body with any closure.                         *)
(***************************************************************************)
MaxRows == 10

RowIndexes == {None} \cup {Some(i) : i \in 0..(MaxRows - 1)}

\* what body() returns and what is persisted under the table id afterwards
body(selected_row, closure_result) ==
    LET new_selected_row == TableBodyResult(closure_result, selected_row) IN
    [result |-> new_selected_row,
     persisted |-> IF selected_row # new_selected_row
                   THEN new_selected_row
                   ELSE selected_row]

InitBody ==
    /\ QtmNew
    /\ PieceIdle /\ VersionIdle /\ LoginIdle
    /\ PromptIdle /\ WidthsIdle /\ ConfigIdle /\ RowIdle
    /\ data_persisted \in RowIndexes
    /\ body_call = None

Body(closure_result) ==
    LET r == body(data_persisted, closure_result) IN
    /\ body_call' = Some([selected_row |-> data_persisted,
                          closure_result |-> closure_result,
                          result |-> r.result])
    /\ data_persisted' = r.persisted
    /\ UNCHANGED <<guiVars, pieceVars, versionVars, loginVars, promptVars,
                   widthsVars, configVars, rowVars>>

NextBody == \E closure_result \in RowIndexes : Body(closure_result)

SpecBody == InitBody /\ [][NextBody]_vars

\* C16: if the closure returns Some(i), body returns Some(i) and Some(i) is
\* persisted under the table id; if it returns None, body returns the
\* selection persisted before and the persisted value is unchanged.
C16_BodySelection ==
    body_call # None =>
        LET call == Unwrap(body_call) IN
        IF IsSome(call.closure_result)
        THEN call.result = call.closure_result /\ data_persisted = call.closure_result
        ELSE call.result = call.selected_row /\ data_persisted = call.selected_row

\* the closure returned None while row 3 was the persisted selection
C16_KeptPersistedSelection ==
    /\ body_call # None
    /\ Unwrap(body_call).closure_result = None
    /\ Unwrap(body_call).selected_row = Some(3)
    /\ Unwrap(body_call).result = Some(3)

(***************************************************************************)
(* qtm_config: QtmConfig::load and QtmConfig::save.  A TOML document is a  *)
(* sequence of <<key, value>> lines; a file is missing, unreadable or      *)
(* holds a document.                                                       *)
(***************************************************************************)
\* QtmVersion::get_current_version(): the version of the package
CurrentVersion == <<0, 1, 0>>

QtmTheme == {"Light", "Dark"}

DefaultConfig ==
    [version |-> CurrentVersion,
     theme |-> "Light",
     default_directory |-> None,
     initial_window_size |-> <<800, 700>>,
     image_area |-> 120000]

\* the configurations the application saves
Configs ==
    {[DefaultConfig EXCEPT !.theme = theme, !.default_directory = dir] :
        theme \in QtmTheme, dir \in {None, Some(<<"data">>)}}

\* toml::to_string: a None field is left out
toml_to_string(config) ==
    <<"Ok",
      <<<<"version", config.version>>, <<"theme", config.theme>>>>
      \o (IF config.default_directory = None
          THEN <<>>
          ELSE <<<<"default_directory", Unwrap(config.default_directory)>>>>)
      \o <<<<"initial_window_size", config.initial_window_size>>,
           <<"image_area", config.image_area>>>>>>

Keys(text) == {text[i][1] : i \in 1..Len(text)}
ValueOf(text, key) == text[CHOOSE i \in 1..Len(text) : text[i][1] = key][2]

\* toml::from_str::<QtmConfig>: no key twice, every field but the Option one
\* present, a known theme; keys that are no fields are ignored
toml_from_str(text) ==
    IF /\ \A i, j \in 1..Len(text) : text[i][1] = text[j][1] => i = j
       /\ {"version", "theme", "initial_window_size", "image_area"} \subseteq Keys(text)
       /\ ValueOf(text, "theme") \in QtmTheme
    THEN <<"Ok",
           [version |-> ValueOf(text, "version"),
            theme |-> ValueOf(text, "theme"),
            default_directory |->
                IF "default_directory" \in Keys(text)
                THEN Some(ValueOf(text, "default_directory"))
                ELSE None,
            initial_window_size |-> ValueOf(text, "initial_window_size"),
            image_area |-> ValueOf(text, "image_area")]>>
    ELSE <<"Err">>

TextFile(text) == [kind |-> "text", content |-> text]

\* fs::read_to_string
read_to_string(file) ==
    IF file.kind = "text" THEN <<"Ok", file.content>> ELSE <<"Err">>

\* fs::write: the file after it, and whether it succeeded
write(file, writable, text) == IF writable THEN TextFile(text) ELSE file

\* QtmConfig::save: the file after it
save(config, file, writable) ==
    LET serialised == toml_to_string(config) IN
    IF serialised[1] # "Ok" THEN file
    ELSE write(file, writable, serialised[2])

\* a load that saves the default configuration over a file it cannot parse
load_overwriting(file, writable) ==
    LET file_content == read_to_string(file) IN
    IF file_content[1] = "Err" \/ toml_from_str(file_content[2])[1] = "Err"
    THEN [result |-> DefaultConfig, file |-> save(DefaultConfig, file, writable)]
    ELSE [result |-> toml_from_str(file_content[2])[2], file |-> file]

\* QtmConfig::load: what it returns and the file after it
load(file, writable) ==
    LET file_content == read_to_string(file) IN
    IF file_content[1] = "Err"
    THEN [result |-> DefaultConfig, file |-> save(DefaultConfig, file, writable)]
    ELSE LET config == toml_from_str(file_content[2]) IN
         IF config[1] = "Ok"
         THEN [result |-> config[2], file |-> file]
         ELSE [result |-> DefaultConfig, file |-> file]

\* documents that are no configuration, and ones written by hand
BrokenTexts ==
    {<<>>,
     <<<<"theme", "Light">>>>,
     <<<<"version", CurrentVersion>>, <<"theme", "Blue">>,
       <<"initial_window_size", <<800, 700>>>>, <<"image_area", 120000>>>>,
     <<<<"version", CurrentVersion>>, <<"theme", "Dark">>, <<"theme", "Dark">>,
       <<"initial_window_size", <<800, 700>>>>, <<"image_area", 120000>>>>}

HandWrittenTexts ==
    {<<<<"image_area", 90000>>, <<"initial_window_size", <<640, 480>>>>,
       <<"theme", "Dark">>, <<"version", CurrentVersion>>, <<"font", "mono">>>>}

ConfigFiles ==
    {[kind |-> "missing"], [kind |-> "unreadable"]}
    \cup {TextFile(toml_to_string(config)[2]) : config \in Configs}
    \cup {TextFile(text) : text \in BrokenTexts \cup HandWrittenTexts}

InitConfig ==
    /\ QtmNew
    /\ PieceIdle /\ VersionIdle /\ LoginIdle
    /\ PromptIdle /\ WidthsIdle /\ BodyIdle /\ RowIdle
    /\ config_file \in ConfigFiles
    /\ config_writable \in BOOLEAN
    /\ load_call = None

Load ==
    LET r == load(config_file, config_writable) IN
    /\ load_call' = Some([file |-> config_file, writable |-> config_writable,
                          result |-> r.result, after |-> r.file])
    /\ config_file' = r.file
    /\ UNCHANGED <<guiVars, pieceVars, versionVars, loginVars, promptVars, widthsVars,
                   bodyVars, config_writable, rowVars>>

\* the application saves its configuration when the theme or the default
\* directory is changed
Save(config) ==
    /\ config_file' = save(config, config_file, config_writable)
    /\ UNCHANGED <<guiVars, pieceVars, versionVars, loginVars, promptVars, widthsVars,
                   bodyVars, config_writable, load_call, rowVars>>

\* the directory of the file turns read-only, or writable again
EnvSetWritable ==
    /\ config_writable' = ~config_writable
    /\ UNCHANGED <<guiVars, pieceVars, versionVars, loginVars, promptVars, widthsVars,
                   bodyVars, config_file, load_call, rowVars>>

NextConfig ==
    \/ Load
    \/ \E config \in Configs : Save(config)
    \/ EnvSetWritable

SpecConfig == InitConfig /\ [][NextConfig]_vars

\* C17: load always returns a configuration.  When the file cannot be read
\* it returns the default one and tries to write the default one to the
\* path; when the file is read but is no configuration it returns the
\* default one and leaves the file as it is; otherwise it returns the
\* configuration in the file, which for a saved configuration is the one
\* that was saved.
C17_LoadNeverFails ==
    load_call # None =>
        LET call == Unwrap(load_call) IN
        /\ DOMAIN call.result = DOMAIN DefaultConfig
        /\ IF call.file.kind # "text"
           THEN /\ call.result = DefaultConfig
                /\ call.after = IF call.writable
                                THEN TextFile(toml_to_string(DefaultConfig)[2])
                                ELSE call.file
           ELSE /\ call.after = call.file
                /\ IF toml_from_str(call.file.content)[1] = "Err"
                   THEN call.result = DefaultConfig
                   ELSE call.result = toml_from_str(call.file.content)[2]
                /\ \A config \in Configs :
                       call.file.content = toml_to_string(config)[2] =>
                           call.result = config

\* a file that is no configuration was loaded and is still there
C17_BrokenFileKept ==
    /\ load_call # None
    /\ Unwrap(load_call).file = TextFile(<<<<"theme", "Light">>>>)
    /\ Unwrap(load_call).writable
    /\ config_file = TextFile(<<<<"theme", "Light">>>>)

(***************************************************************************)
(* selectable_table: TableRow::col, one call per cell of a row.            *)
(***************************************************************************)
TooManyColumns == "adding more column than specified in table"
IndexOutOfBounds == "index out of bounds"

Layouts == {"left_to_right", "right_to_left"}

\* a col that lets one cell too many through to the slices
col_past_end(r) ==
    IF r.column_no > Len(r.widths) THEN [panic |-> Some(TooManyColumns)]
    ELSE IF r.column_no >= Len(r.widths) THEN [panic |-> Some(IndexOutOfBounds)]
    ELSE [panic |-> None,
          cell |-> [width |-> r.widths[r.column_no + 1],
                    layout |-> r.layout[r.column_no + 1]],
          column_no |-> r.column_no + 1]

\* one call of col: a panic, or the allocated cell and the next column_no
col(r) ==
    IF r.column_no >= Len(r.widths) THEN [panic |-> Some(TooManyColumns)]
    ELSE [panic |-> None,
          cell |-> [width |-> r.widths[r.column_no + 1],
                    layout |-> r.layout[r.column_no + 1]],
          column_no |-> r.column_no + 1]

\* Table::header and TableBody::row hand out rows over the table's column
\* widths and layouts, which have one entry per column
InitRow ==
    /\ QtmNew
    /\ PieceIdle /\ VersionIdle /\ LoginIdle
    /\ PromptIdle /\ WidthsIdle /\ BodyIdle /\ ConfigIdle
    /\ \E n \in 0..MaxColumns :
          \E widths_ \in [1..n -> FixedWidths], layout \in [1..n -> Layouts] :
              row = [widths |-> widths_, layout |-> layout, column_no |-> 0]
    /\ row_cells = <<>>
    /\ row_panic = None

Col ==
    /\ row_panic = None
    /\ LET r == col(row) IN
       IF r.panic # None
       THEN row_panic' = r.panic /\ UNCHANGED <<row, row_cells>>
       ELSE /\ row' = [row EXCEPT !.column_no = r.column_no]
            /\ row_cells' = Append(row_cells, r.cell)
            /\ row_panic' = None
    /\ UNCHANGED <<guiVars, pieceVars, versionVars, loginVars, promptVars, widthsVars,
                   bodyVars, configVars>>

SpecRow == InitRow /\ [][Col]_vars

\* C20: the first widths.len() cells of a row get the width and the layout
\* of their column and column_no counts them; col panics with "adding more
\* column than specified in table" on the cell after these and on no other.
C20_ColPanic ==
    /\ row.column_no = Len(row_cells)
    /\ Len(row_cells) <= Len(row.widths)
    /\ \A i \in 1..Len(row_cells) :
           row_cells[i] = [width |-> row.widths[i], layout |-> row.layout[i]]
    /\ row_panic # None =>
           row_panic = Some(TooManyColumns) /\ Len(row_cells) = Len(row.widths)
    /\ (row_panic = None /\ Len(row_cells) = Len(row.widths)) =>
           col(row).panic = Some(TooManyColumns)

\* a third cell was added to a row of a two-column table
C20_ThirdCellOfTwo ==
    /\ Len(row.widths) = 2
    /\ Len(row_cells) = 2
    /\ row_panic # None

(***************************************************************************)
(* Tags.  TagData derives PartialEq over (text, color) and implements Ord  *)
(* over text alone.  Qtm::new collects the tags into a                     *)
(* BTreeMap<TagData, bool>, here the sequence of its entries in key order. *)
(***************************************************************************)
MaxTags == 2

\* the bytes of the tag texts, in the order of their values
TextBytes == <<"A", "R", "m">>

ByteValue(c) == CHOOSE i \in 1..Len(TextBytes) : TextBytes[i] = c

TagTexts == {<<"A">>, <<"A", "m">>, <<"R">>}

TagColors == {"Blue", "Lime"}

TagData(text, color) == [text |-> text, color |-> color]

TagDatas == {TagData(text, color) : text \in TagTexts, color \in TagColors}

\* String::cmp: the bytes in order, a proper prefix first
str_cmp(a, b) ==
    LET m == CHOOSE n \in 0..Len(a) :
                 /\ n <= Len(b)
                 /\ \A i \in 1..n : a[i] = b[i]
                 /\ n = Len(a) \/ n = Len(b) \/ a[n + 1] # b[n + 1]
    IN  IF m = Len(a) /\ m = Len(b) THEN "Equal"
        ELSE IF m = Len(a) THEN "Less"
        ELSE IF m = Len(b) THEN "Greater"
        ELSE IF ByteValue(a[m + 1]) < ByteValue(b[m + 1]) THEN "Less" ELSE "Greater"

\* #[derive(PartialEq, Eq)] on TagData: every field
tag_eq(self, other) == self.text = other.text /\ self.color = other.color

\* impl Ord for TagData: the text alone
tag_cmp(self, other) == str_cmp(self.text, other.text)

Entry(key, value) == [key |-> key, value |-> value]

\* BTreeMap::insert: an entry whose key compares Equal keeps its key and
\* takes the new value
RECURSIVE insert(_, _, _)
insert(map, key, value) ==
    IF map = <<>> THEN <<Entry(key, value)>>
    ELSE LET o == tag_cmp(key, Head(map).key)
         IN  IF o = "Equal" THEN <<Entry(Head(map).key, value)>> \o Tail(map)
             ELSE IF o = "Less" THEN <<Entry(key, value)>> \o map
             ELSE <<Head(map)>> \o insert(Tail(map), key, value)

\* a collect that inserts the pairs one after the other
RECURSIVE collect_by_insert(_)
collect_by_insert(pairs) ==
    IF pairs = <<>> THEN <<>>
    ELSE LET last == pairs[Len(pairs)]
         IN  insert(collect_by_insert(SubSeq(pairs, 1, Len(pairs) - 1)),
                    last.key, last.value)

\* the stable sort_by(|a, b| a.0.cmp(&b.0)): a pair goes behind the pairs
\* that are not Greater
RECURSIVE sort_by_key(_)
sort_by_key(pairs) ==
    IF pairs = <<>> THEN <<>>
    ELSE LET sorted == sort_by_key(SubSeq(pairs, 1, Len(pairs) - 1))
             last == pairs[Len(pairs)]
             n == Cardinality({i \in 1..Len(sorted) :
                                   tag_cmp(sorted[i].key, last.key) # "Greater"})
         IN  SubSeq(sorted, 1, n) \o <<last>> \o SubSeq(sorted, n + 1, Len(sorted))

\* the deduplication of the sorted pairs: a pair is dropped when the key of
\* the pair behind it is == to its own
dedup_sorted(sorted) ==
    LET kept == {i \in 1..Len(sorted) :
                     i = Len(sorted) \/ ~tag_eq(sorted[i].key, sorted[i + 1].key)}
        nth(k) == CHOOSE i \in kept : Cardinality({j \in kept : j <= i}) = k
    IN  [k \in 1..Cardinality(kept) |-> sorted[nth(k)]]

\* a collect that sorts the pairs and builds the map in bulk
collect_sorted(pairs) == dedup_sorted(sort_by_key(pairs))

\* tags.into_iter().map(|tag| (tag, false)).collect(): what a map holds
\* whose keys break the contract of Ord is not specified, and both ways of
\* collecting are ways of the standard library
collect(tag_list) ==
    LET pairs == [i \in 1..Len(tag_list) |-> Entry(tag_list[i], FALSE)]
    IN  {collect_by_insert(pairs), collect_sorted(pairs)}

TagLists == UNION {[1..n -> TagDatas] : n \in 0..MaxTags}

\* Qtm::new(tag_list)
QtmNewTags(tag_list) ==
    /\ QtmNewFields
    /\ tags \in collect(tag_list)
    /\ lastEvent = <<"new", tag_list>>

InitTags ==
    /\ \E tag_list \in TagLists : QtmNewTags(tag_list)
    /\ PureIdle

\* a click on the i-th tag of the "tags" window
ClickTag(i) ==
    /\ uiPc = "widgets"
    /\ is_tag_menu_open
    /\ i \in 1..Len(tags)
    /\ tags' = [tags EXCEPT ![i].value = ~tags[i].value]
    /\ EndFrame(<<"tag", i>>, selected_index, persisted)
    /\ UNCHANGED <<pureVars, dialog, chan, is_file, content, categories, images, title,
                   description, is_tag_menu_open, workers, fs>>

\* a right click on a chip of the tags row, which shows the selected tags
SecondaryClickTag(i) ==
    /\ uiPc = "widgets"
    /\ FormEnabled
    /\ i \in 1..Len(tags)
    /\ tags[i].value
    /\ tags' = [tags EXCEPT ![i].value = FALSE]
    /\ EndFrame(<<"chip", i>>, selected_index, persisted)
    /\ UNCHANGED <<pureVars, dialog, chan, is_file, content, categories, images, title,
                   description, is_tag_menu_open, workers, fs>>

NextTags ==
    \/ PollDialogChannel
    \/ FrameIdle
    \/ ClickTagMenu
    \/ ClickTagMenuOk
    \/ \E i \in 1..Len(tags) : ClickTag(i)
    \/ \E i \in 1..Len(tags) : SecondaryClickTag(i)

SpecTags == InitTags /\ [][NextTags]_vars

TagKeys(map) == {map[i].key : i \in 1..Len(map)}

\* right after Qtm::new: the ordering of the tags passed agrees with their
\* equality, and the map has one unselected entry for each of them
KeptByNew ==
    lastEvent[1] = "new" =>
        LET passed == Range(lastEvent[2])
        IN  /\ \A a, b \in passed : tag_cmp(a, b) = "Equal" <=> tag_eq(a, b)
            /\ TagKeys(tags) = passed
            /\ Len(tags) = Cardinality(passed)
            /\ \A i \in 1..Len(tags) : ~tags[i].value

\* a step keeps the keys and changes at most the boolean of the clicked tag:
\* a click in the menu toggles it, a right click on a chip clears it
TagOperation ==
    /\ Len(tags') = Len(tags)
    /\ \A i \in 1..Len(tags) : tags'[i].key = tags[i].key
    /\ \A i \in 1..Len(tags) :
           tags'[i].value # tags[i].value =>
               /\ uiPc = "widgets"
               /\ lastEvent' \in {<<"tag", i>>, <<"chip", i>>}
    /\ (uiPc = "widgets" /\ lastEvent'[1] = "tag") =>
           tags'[lastEvent'[2]].value = ~tags[lastEvent'[2]].value
    /\ (uiPc = "widgets" /\ lastEvent'[1] = "chip") =>
           tags[lastEvent'[2]].value /\ ~tags'[lastEvent'[2]].value

\* C21: every tag passed to Qtm::new is kept: the ordering of TagData is
\* Equal exactly for equal tags, so that the tags map has one unselected
\* entry for each distinct tag of the list, and the tag operations after it
\* change the boolean of the clicked tag alone and leave the keys as they are.
C21_EveryTagKept == []KeptByNew /\ [][TagOperation]_vars

\* the keys and the clicked boolean alone: the part about the tag operations
TagOperationsKeepKeys == [][TagOperation]_vars

====
